---- MODULE Spec2Model ----
(***************************************************************************)
(* State-machine model of the cedar-drt type-directed fuzzing harnesses:   *)
(* the AFL drivers (cedar-afl/src/fuzz_targets), the harness functions of  *)
(* fuzz-lib/src/harnesses.rs (test_abac_type_directed,                     *)
(* test_eval_type_directed, test_rbac), the simple-parser fuzz target, and *)
(* the Tyche observability log they append to.                             *)
(*                                                                         *)
(* A harness process runs trials one after the other.  The generators and  *)
(* the engines (validator, run_auth_test, run_eval_test, parse_policyset)  *)
(* are external: each of their results is a nondeterministic choice.       *)
(* Texts (status reasons, diagnostics) are sequences of words, so that     *)
(* `str::contains` is the search for a contiguous run of words.            *)
(* File-system calls are taken to succeed (the code panics otherwise).     *)
(***************************************************************************)
EXTENDS Integers, Sequences, FiniteSets, TLC

\* ------------------------------------------------------------------ bounds
\* trials one harness process runs
MaxTrials == 1
\* entity ids a hierarchy is generated from
MaxEntities == 2
\* diagnostic errors one authorization returns
MaxErrs == 1
\* validation errors one validation returns
MaxValErrs == 2

\* ------------------------------------------------------- program constants
\* `requests: [ABACRequest; 8]`, `requests: [RBACRequest; 8]`
NumRequests == 8

Procs == {1, 2}

AbacKinds == {"abac_fn", "abac_afl"}
\* the harnesses that carry an observability recorder
Kinds == {"abac_fn", "abac_afl", "eval_afl", "rbac_fn", "parser", "roundtrip"}
\* the derived tests, which have none
DerivedKinds == {"valdrt"}

Statuses == {"passed", "failed", "gave_up"}

\* ------------------------------------------------------------------- texts
\* `haystack.contains(needle)` on texts held as sequences of words
Contains(s, sub) ==
    \E i \in 1..(Len(s) - Len(sub) + 1) : SubSeq(s, i, i + Len(sub) - 1) = sub

WrongArgsNeedle == <<"wrong", "number", "of", "arguments">>

\* The error texts an authorization may return: one that carries the
\* arity phrase, one that shares words with it, one unrelated.
WrongArgsText ==
    <<"error", "while", "evaluating:", "wrong", "number", "of", "arguments", "to", "f">>
WrongTypeText == <<"type", "error:", "wrong", "type", "of", "arguments">>
OtherText == <<"entity", "does", "not", "exist">>
ErrorTexts == {WrongArgsText, WrongTypeText, OtherText}

\* `diagnostics.errors` of one authorization: up to MaxErrs error texts
Diags == UNION {[1..n -> ErrorTexts] : n \in 0..MaxErrs}

\* `kind().to_string()` of a validation error
ValErrKind == "UnexpectedType"

\* ------------------------------------------------------- Tyche test record
\* features and timing are JSON objects: sets of <<key, value>> / of keys
SetKey(obj, k, v) == {e \in obj : e[1] # k} \cup {<<k, v>>}

TycheDefault ==
    [status |-> "", status_reason |-> <<>>, representation |-> "",
     property |-> "", features |-> {}, timing |-> {}]

\* the generated schema the features are counted on
InputSchema ==
    [namespace_name_len |-> 2, num_actions |-> 1,
     num_entity_types |-> 1, num_common_types |-> 0]

AbacGetFeatures ==
    {<<"namespace_name_len", InputSchema.namespace_name_len>>,
     <<"num_actions", InputSchema.num_actions>>,
     <<"num_entity_types", InputSchema.num_entity_types>>,
     <<"num_common_types", InputSchema.num_common_types>>,
     <<"validation_errors", 0>>}

AbacToTyche ==
    [TycheDefault EXCEPT !.representation = "schema,policy,requests",
                         !.property = "abac-type-directed",
                         !.features = AbacGetFeatures]

EvalToTyche ==
    [TycheDefault EXCEPT !.representation = "schema,entities,expression,request",
                         !.property = "eval-type-directed"]

RbacToTyche ==
    [TycheDefault EXCEPT !.representation = "hierarchy,policy_groups,requests",
                         !.property = "rbac"]

ParserObs(text, name) ==
    [TycheDefault EXCEPT !.representation = text, !.property = name]

\* schema-roundtrip.rs 85-91
RoundtripToTyche == [TycheDefault EXCEPT !.representation = "natural schema"]

\* ------------------------------------------------- pieces of the harnesses
GenFailureRecord_m(obs) ==
    [obs EXCEPT !.status = "failed", !.status_reason = <<"arbitrary", "failure">>]

\* harnesses.rs 97-98, 137-138: the else branch of a failed generation
GenFailureRecord(obs) ==
    [obs EXCEPT !.status = "gave_up",
                !.status_reason = <<"arbitrary", "generation", "failed">>]

InitialStatus_m == "passed"

\* harnesses.rs 37: the status before the schema is converted
InitialStatus == "gave_up"

ValidationPassed_m(obs) ==
    [obs EXCEPT !.status = "gave_up",
                !.status_reason = <<"validator_passed">>,
                !.features = SetKey(obs.features, "validation_errors", 0)]

\* harnesses.rs 42-44
ValidationPassed(obs) ==
    [obs EXCEPT !.status = "passed",
                !.status_reason = <<"validator_passed">>,
                !.features = SetKey(obs.features, "validation_errors", 0)]

ValidationFailed_m(obs, n) ==
    [obs EXCEPT !.status = "gave_up",
                !.status_reason = [i \in 1..n |-> ValErrKind],
                !.features = SetKey(obs.features, "validation_errors", 0)]

\* harnesses.rs 47-54: n validation errors, their kinds joined
ValidationFailed(obs, n) ==
    [obs EXCEPT !.status = "gave_up",
                !.status_reason = [i \in 1..n |-> ValErrKind],
                !.features = SetKey(obs.features, "validation_errors", n)]

WrongArgsErrors_m(d) == SelectSeq(d, LAMBDA err : err = WrongArgsNeedle)

\* harnesses.rs 77-83: the errors the assertion wants to be none
WrongArgsErrors(d) == SelectSeq(d, LAMBDA err : Contains(err, WrongArgsNeedle))

\* harnesses.rs 90-95
AbacFinished(obs, total) ==
    [obs EXCEPT !.features = SetKey(obs.features, "total_auth_errors", total),
                !.timing = obs.timing \cup {"generate", "execute"}]

\* simple-parser.rs 55-56
ParseFailed(obs) ==
    [obs EXCEPT !.status = "failed", !.status_reason = <<"Parse", "error!">>]

\* the draws of the assemblers, in order, each ending in `?`
RequestDraws == [i \in 1..NumRequests |-> "request"]
AbacDraws ==
    <<"schema", "hierarchy", "policy">> \o RequestDraws
        \o <<"entities", "drop_some_entities">>
EvalDraws ==
    <<"schema", "hierarchy", "toplevel_type", "expression", "request",
      "entities", "drop_some_entities">>
\* rbac.rs 134-161
RbacDraws == <<"hierarchy", "policy_groups">> \o RequestDraws
Draws(k) ==
    IF k = "eval_afl" THEN EvalDraws
    ELSE IF k = "rbac_fn" THEN RbacDraws ELSE AbacDraws

\* ------------------------------------------------------------ environment
ObservabilityOn_m(set) == TRUE

\* `if let Ok(_) = std::env::var("DRT_OBSERVABILITY")`
ObservabilityOn(set) == set

\* `std::env::var("FUZZ_TARGET").unwrap_or(default)`
DefaultName(k) == IF k = "eval_afl" THEN "eval-type-directed" ELSE "fuzz-target"
TestName(k, env) == IF env = "unset" THEN DefaultName(k) ELSE env

OutDir(k) == IF k = "parser" THEN "tyche-out" ELSE "fuzz/observations"

AllDirs == {"tyche-out", "fuzz/observations"}
AllNames == {"t1", "fuzz-target", "eval-type-directed"}
Paths == AllDirs \X AllNames

\* the keys of the features and of the timing object, in the order of the
\* map of a `serde_json::Value`
FeatureKeys ==
    <<"namespace_name_len", "num_actions", "num_common_types",
      "num_entity_types", "total_auth_errors", "validation_errors">>
TimingKeys == <<"execute", "generate">>

\* the members of a JSON object, key by key
Members(obj, keys) ==
    LET present == SelectSeq(keys, LAMBDA k : \E e \in obj : e[1] = k)
    IN  [i \in 1..Len(present) |->
            <<present[i], (CHOOSE e \in obj : e[1] = present[i])[2]>>]

\* harnesses.rs 115: `serde_json::to_value(&obs_out)`, an object with one
\* member per field of the record
ToJson(obs) ==
    [representation |-> obs.representation, property |-> obs.property,
     status |-> obs.status, status_reason |-> obs.status_reason,
     features |-> Members(obs.features, FeatureKeys),
     timing |-> SelectSeq(TimingKeys, LAMBDA k : k \in obs.timing)]

OpenAppend_m(f) == <<>>

\* harnesses.rs 109-113: `.create(true).append(true)` keeps what the file holds
OpenAppend(f) == f

WriteFmtPieces_m(p, n, obs) ==
    <<[owner |-> p, trial |-> n, part |-> "json", rec |-> obs, text |-> ToJson(obs)],
      [owner |-> p, trial |-> n, part |-> "nl", rec |-> TycheDefault,
       text |-> ToJson(TycheDefault)],
      [owner |-> p, trial |-> n, part |-> "json", rec |-> obs, text |-> ToJson(obs)],
      [owner |-> p, trial |-> n, part |-> "nl", rec |-> TycheDefault,
       text |-> ToJson(TycheDefault)]>>

\* What `writeln!(file, "{}", obs_out_json)` hands to the file: `File` is
\* unbuffered and `Write::write_fmt` issues one `write_all` per formatted
\* piece, so the JSON text (itself serialized through the formatter) and the
\* newline of the format string reach the file in separate writes: at least
\* the two kept here.
WriteFmtPieces(p, n, obs) ==
    <<[owner |-> p, trial |-> n, part |-> "json", rec |-> obs, text |-> ToJson(obs)],
      [owner |-> p, trial |-> n, part |-> "nl", rec |-> TycheDefault,
       text |-> ToJson(TycheDefault)]>>

AfterWrite_m(k) == IF k \in AbacKinds THEN "auth" ELSE "returned"

\* the harness function returns after the write
AfterWrite(k) == "returned"

\* ------------------------------------------------ scenarios and policy sets
EntityIds == 1..MaxEntities
Slots == {"?principal", "?resource"}

\* `arbitrary_vec(u, Some(1), Some(2), ..)`, `arbitrary_vec(u, Some(1), Some(4), ..)`
MinGroups == 1
MaxGroups == 2
MinLinks == 1
MaxLinks == 4

\* `format!("{}", n)` of an index
DigitChars == <<"0", "1", "2", "3", "4", "5", "6", "7", "8", "9">>
RECURSIVE Digits(_)
Digits(n) ==
    IF n < 10 THEN <<DigitChars[n + 1]>>
    ELSE Digits(n \div 10) \o <<DigitChars[(n % 10) + 1]>>

\* rbac.rs 109: `format!("p{}", pg_idx)`
PolicyId(pg_idx) == <<"p">> \o Digits(pg_idx)

LinkId_m(pg_idx, l_idx) == <<"t", "_", "l">> \o Digits(l_idx)

\* rbac.rs 117: `format!("t{}_l{}", pg_idx, l_idx)`
LinkId(pg_idx, l_idx) ==
    <<"t">> \o Digits(pg_idx) \o <<"_", "l">> \o Digits(l_idx)

\* the lengths `arbitrary_loop(min, max, ..)` can give the vector
GroupCounts == MinGroups..MaxGroups

LinkCounts_m == 0..MaxLinks

LinkCounts == MinLinks..MaxLinks

HasSlots_m(policy) == TRUE

\* rbac.rs 114: `policy.has_slots()`
HasSlots(policy) == policy.slots # {}

\* GeneratedLinkedPolicy::arbitrary(id, &policy, ..): a link of the template,
\* binding each of its slots
LinkedPolicy(id, policy) == [id |-> id, bound |-> policy.slots]

\* rbac.rs 98-130, for a policy drawn with the slots `slots` and a link
\* vector of length n
PolicyGroupFor(pg_idx, slots, n) ==
    LET policy == [id |-> PolicyId(pg_idx), slots |-> slots]
    IN  IF HasSlots(policy)
        THEN [tag |-> "TemplateWithLinks", template |-> policy,
              links |-> [l \in 1..n |-> LinkedPolicy(LinkId(pg_idx, l - 1), policy)]]
        ELSE [tag |-> "StaticPolicy", template |-> policy, links |-> <<>>]

\* the scenario a trial is given; a request is named by its place in the batch
NoInput ==
    [schema |-> "none", policy |-> "none", hierarchy |-> "none",
     policy_groups |-> <<>>, entities |-> "none", requests |-> <<>>]
Batch == [i \in 1..NumRequests |-> i]

\* abac_type_directed.rs 38-53: the fields of the ABAC input
AbacInput ==
    [NoInput EXCEPT !.schema = "schema", !.policy = "policy",
                    !.entities = "input.entities", !.requests = Batch]

\* rbac.rs 38-53: the fields of the RBAC input; a group is static or a
\* template with the fewest or the most links
RbacGroupVectors ==
    UNION {{[i \in 1..g |-> PolicyGroupFor(i - 1, sl[i], ln[i])] :
               sl \in [1..g -> {{}, {"?principal"}}],
               ln \in [1..g -> {MinLinks, MaxLinks}]} : g \in GroupCounts}
RbacInputs ==
    {[NoInput EXCEPT !.hierarchy = "hierarchy", !.policy_groups = g,
                     !.requests = Batch] : g \in RbacGroupVectors}

\* harnesses.rs 30-32: the policy set of test_abac_type_directed
AbacPolicySet(inp) == <<inp.policy>>

GroupAdditions_m(pg) ==
    [l \in 1..Len(pg.links) |-> pg.links[l].id] \o <<pg.template.id>>

\* harnesses.rs 166-176: what one policy group adds to the policy set, in
\* the order of the `add_to_policyset` calls
GroupAdditions(pg) ==
    IF pg.tag = "StaticPolicy" THEN <<pg.template.id>>
    ELSE <<pg.template.id>> \o [l \in 1..Len(pg.links) |-> pg.links[l].id]

\* harnesses.rs 164-177: the policy set of test_rbac, as the sequence of
\* the identifiers added
RECURSIVE RbacPolicySet(_)
RbacPolicySet(groups) ==
    IF groups = <<>> THEN <<>>
    ELSE GroupAdditions(Head(groups)) \o RbacPolicySet(Tail(groups))

AbacAuthArgs_m(inp, ps, i) ==
    [request |-> inp.requests[i], policyset |-> IF i = 1 THEN ps ELSE <<>>,
     entities |-> inp.entities]

\* harnesses.rs 69: `run_auth_test(&def_impl, request, &policyset, &input.entities)`
AbacAuthArgs(inp, ps, i) ==
    [request |-> inp.requests[i], policyset |-> ps, entities |-> inp.entities]

\* harnesses.rs 163, 181: the entities are those converted from the hierarchy
RbacAuthArgs(inp, ps, i) ==
    [request |-> inp.requests[i], policyset |-> ps, entities |-> "entities"]

AfterAuth_m(i) == "finish"

\* harnesses.rs 66: the loop ends after the last request of the batch
AfterAuth(i) == IF i = NumRequests THEN "finish" ELSE "auth"

Accumulate_m(total, d) == Len(d)

\* harnesses.rs 73: `total_auth_errors += rust_res.diagnostics.errors.len()`
Accumulate(total, d) == total + Len(d)

\* ------------------------------------------------------------------ state
VARIABLES
    kind,        \* the harness each process runs ("off": no process)
    obsEnv,      \* DRT_OBSERVABILITY is set
    fuzzTarget,  \* FUZZ_TARGET: "unset" or its value
    budget,      \* trials the fuzz engine gives the process
    pc,          \* where the process is in its trial
    trial,       \* trials started
    genIdx,      \* draws of the assembler done
    genRes,      \* result of `arbitrary`: "none", "Ok", "Err"
    valid,       \* the `valid` flag
    schemaRes,   \* ValidatorSchema::try_from / Entities::try_from
    valErrs,     \* validation errors: -1 while the validator has not run
    obs_out,     \* the TycheTest under construction
    reqIdx,      \* requests authorized
    total_auth_errors,
    calls,       \* oracle invocations of the trial
    wrongArgsAt, \* the request whose diagnostics carried the arity error
    test_name,
    pending,     \* pieces of the line still to write
    dirs, created, files,   \* the file system
    linesAtStart, \* newline count of the file system when the trial began
    abort,       \* what made the trial panic ("none": it has not)
    reported,    \* what the trial printed about a failure
    verdicts,    \* run_val_test: the mode and the two validators' verdicts
    input,       \* the scenario of the trial
    policyset,   \* the identifiers added to the policy set, in order
    authLog,     \* the arguments of the run_auth_test calls of the trial
    errors,      \* number of errors of the authorization just made
    asmKind,     \* the assembler under study ("off": none)
    asmIdx,      \* draws of that assembler done
    asmRes,      \* its result: "none", "Ok", "Err"
    failedAt,    \* the draw that failed (0: none has)
    hierarchy,   \* entity ids of the generated hierarchy
    requests,    \* number of requests generated
    referenced,  \* entity ids the requests name as principal or resource
    entities,    \* the scenario's final entity set
    policy_groups

cfgVars == <<kind, obsEnv, fuzzTarget, budget>>
genVars == <<genIdx, genRes, valid>>
execVars == <<schemaRes, valErrs, reqIdx, total_auth_errors, calls, wrongArgsAt>>
fsVars == <<dirs, created, files>>
diagVars == <<abort, reported, verdicts>>
traceVars == <<input, policyset, authLog, errors>>
asmVars == <<asmKind, asmIdx, asmRes, failedAt, hierarchy, requests, referenced, entities,
             policy_groups>>
vars == <<cfgVars, pc, trial, genVars, execVars, obs_out, test_name, pending,
          fsVars, linesAtStart, diagVars, traceVars, asmVars>>

NoCalls ==
    [validator |-> 0, run_auth_test |-> 0, run_eval_test |-> 0, parse |-> 0,
     run_val_test |-> 0]
NoVerdicts ==
    [mode |-> "none", rust_in |-> <<>>, lean_in |-> <<>>,
     rust |-> "none", lean |-> "none"]
TotalCalls(p) ==
    calls[p].validator + calls[p].run_auth_test + calls[p].run_eval_test
        + calls[p].parse + calls[p].run_val_test

NewLines(f) == Cardinality({i \in 1..Len(f) : f[i].part = "nl"})
RECURSIVE SumLines(_, _)
SumLines(fs, ps) ==
    IF ps = {} THEN 0
    ELSE LET q == CHOOSE x \in ps : TRUE
         IN NewLines(fs[q]) + SumLines(fs, ps \ {q})
TotalLines == SumLines(files, Paths)

InitLocals ==
    /\ pc = [p \in Procs |-> "idle"]
    /\ trial = [p \in Procs |-> 0]
    /\ genIdx = [p \in Procs |-> 0]
    /\ genRes = [p \in Procs |-> "none"]
    /\ valid = [p \in Procs |-> TRUE]
    /\ schemaRes = [p \in Procs |-> "none"]
    /\ valErrs = [p \in Procs |-> -1]
    /\ obs_out = [p \in Procs |-> TycheDefault]
    /\ reqIdx = [p \in Procs |-> 0]
    /\ total_auth_errors = [p \in Procs |-> 0]
    /\ calls = [p \in Procs |-> NoCalls]
    /\ wrongArgsAt = [p \in Procs |-> 0]
    /\ test_name = [p \in Procs |-> "none"]
    /\ pending = [p \in Procs |-> <<>>]
    /\ dirs = {}
    /\ created = {}
    /\ files = [q \in Paths |-> <<>>]
    /\ linesAtStart = [p \in Procs |-> 0]
    /\ abort = [p \in Procs |-> "none"]
    /\ reported = [p \in Procs |-> {}]
    /\ verdicts = [p \in Procs |-> NoVerdicts]
    /\ input = [p \in Procs |-> NoInput]
    /\ policyset = [p \in Procs |-> <<>>]
    /\ authLog = [p \in Procs |-> <<>>]
    /\ errors = [p \in Procs |-> 0]

\* no assembler is under study
AsmOff ==
    /\ asmKind = "off"
    /\ asmIdx = 0
    /\ asmRes = "none"
    /\ failedAt = 0
    /\ hierarchy = {}
    /\ requests = 0
    /\ referenced = {}
    /\ entities = {}
    /\ policy_groups = <<>>

\* one harness process
Init ==
    /\ kind \in {k \in [Procs -> Kinds \cup DerivedKinds \cup {"off"}] :
                    k[1] # "off" /\ k[2] = "off"}
    /\ obsEnv \in {e \in [Procs -> BOOLEAN] : ~e[2]}
    /\ fuzzTarget \in {e \in [Procs -> {"unset", "t1"}] : e[2] = "unset"}
    /\ budget = [p \in Procs |-> IF p = 1 THEN MaxTrials ELSE 0]
    /\ InitLocals
    /\ AsmOff

\* two processes of the same harness, observability on, the same
\* FUZZ_TARGET and so the same file, one trial each
InitConc ==
    /\ kind \in {k \in [Procs -> Kinds \cup DerivedKinds] : k[1] = k[2]}
    /\ obsEnv = [p \in Procs |-> TRUE]
    /\ fuzzTarget = [p \in Procs |-> "t1"]
    /\ budget = [p \in Procs |-> 1]
    /\ InitLocals
    /\ AsmOff

\* ---------------------------------------------------------------- actions
\* a panic unwinds the trial: the locals are dropped, nothing more runs
Panic(p, cause, printed) ==
    /\ pc' = [pc EXCEPT ![p] = "panicked"]
    /\ obs_out' = [obs_out EXCEPT ![p] = TycheDefault]
    /\ abort' = [abort EXCEPT ![p] = cause]
    /\ reported' = [reported EXCEPT ![p] = printed]

StartTrial_m(p) ==
    /\ kind[p] # "off"
    /\ pc[p] \in {"idle", "returned", "panicked"}
    /\ trial[p] < budget[p]
    /\ trial' = [trial EXCEPT ![p] = @ + 1]
    /\ pc' = [pc EXCEPT ![p] =
                IF kind[p] \in {"abac_afl", "eval_afl"} THEN "gen"
                ELSE IF kind[p] = "parser" THEN "name"
                ELSE IF kind[p] = "roundtrip" THEN "convert"
                ELSE IF kind[p] = "valdrt" THEN "val_schema" ELSE "call"]
    /\ genIdx' = [genIdx EXCEPT ![p] = 0]
    /\ genRes' = [genRes EXCEPT ![p] = "none"]
    /\ \E v \in (IF kind[p] = "abac_fn" THEN BOOLEAN ELSE {TRUE}) :
          valid' = [valid EXCEPT ![p] = v]
    /\ schemaRes' = [schemaRes EXCEPT ![p] = "none"]
    /\ valErrs' = [valErrs EXCEPT ![p] = -1]
    /\ obs_out' = [obs_out EXCEPT ![p] = TycheDefault]
    /\ reqIdx' = [reqIdx EXCEPT ![p] = 0]
    /\ UNCHANGED total_auth_errors
    /\ calls' = [calls EXCEPT ![p] = NoCalls]
    /\ wrongArgsAt' = [wrongArgsAt EXCEPT ![p] = 0]
    /\ test_name' = [test_name EXCEPT ![p] = "none"]
    /\ pending' = [pending EXCEPT ![p] = <<>>]
    /\ linesAtStart' = [linesAtStart EXCEPT ![p] = TotalLines]
    /\ abort' = [abort EXCEPT ![p] = "none"]
    /\ reported' = [reported EXCEPT ![p] = {}]
    /\ verdicts' = [verdicts EXCEPT ![p] = NoVerdicts]
    /\ \E inp \in (IF kind[p] = "abac_fn" THEN {AbacInput}
                    ELSE IF kind[p] = "rbac_fn" THEN RbacInputs ELSE {NoInput}) :
          input' = [input EXCEPT ![p] = inp]
    /\ policyset' = [policyset EXCEPT ![p] = <<>>]
    /\ authLog' = [authLog EXCEPT ![p] = <<>>]
    /\ errors' = [errors EXCEPT ![p] = 0]
    /\ UNCHANGED <<cfgVars, asmVars, fsVars>>

\* the fuzz engine hands the target the next byte buffer
StartTrial(p) ==
    /\ kind[p] # "off"
    /\ pc[p] \in {"idle", "returned", "panicked"}
    /\ trial[p] < budget[p]
    /\ trial' = [trial EXCEPT ![p] = @ + 1]
    /\ pc' = [pc EXCEPT ![p] =
                IF kind[p] \in {"abac_afl", "eval_afl"} THEN "gen"
                ELSE IF kind[p] = "parser" THEN "name"
                ELSE IF kind[p] = "roundtrip" THEN "convert"
                ELSE IF kind[p] = "valdrt" THEN "val_schema" ELSE "call"]
    /\ genIdx' = [genIdx EXCEPT ![p] = 0]
    /\ genRes' = [genRes EXCEPT ![p] = "none"]
    /\ \E v \in (IF kind[p] = "abac_fn" THEN BOOLEAN ELSE {TRUE}) :
          valid' = [valid EXCEPT ![p] = v]
    /\ schemaRes' = [schemaRes EXCEPT ![p] = "none"]
    /\ valErrs' = [valErrs EXCEPT ![p] = -1]
    /\ obs_out' = [obs_out EXCEPT ![p] = TycheDefault]
    /\ reqIdx' = [reqIdx EXCEPT ![p] = 0]
    /\ total_auth_errors' = [total_auth_errors EXCEPT ![p] = 0]
    /\ calls' = [calls EXCEPT ![p] = NoCalls]
    /\ wrongArgsAt' = [wrongArgsAt EXCEPT ![p] = 0]
    /\ test_name' = [test_name EXCEPT ![p] = "none"]
    /\ pending' = [pending EXCEPT ![p] = <<>>]
    /\ linesAtStart' = [linesAtStart EXCEPT ![p] = TotalLines]
    /\ abort' = [abort EXCEPT ![p] = "none"]
    /\ reported' = [reported EXCEPT ![p] = {}]
    /\ verdicts' = [verdicts EXCEPT ![p] = NoVerdicts]
    /\ \E inp \in (IF kind[p] = "abac_fn" THEN {AbacInput}
                    ELSE IF kind[p] = "rbac_fn" THEN RbacInputs ELSE {NoInput}) :
          input' = [input EXCEPT ![p] = inp]
    /\ policyset' = [policyset EXCEPT ![p] = <<>>]
    /\ authLog' = [authLog EXCEPT ![p] = <<>>]
    /\ errors' = [errors EXCEPT ![p] = 0]
    /\ UNCHANGED <<cfgVars, asmVars, fsVars>>

\* one draw of the assembler succeeds
DrawOk(p) ==
    /\ pc[p] = "gen"
    /\ genIdx[p] < Len(Draws(kind[p]))
    /\ genIdx' = [genIdx EXCEPT ![p] = @ + 1]
    /\ IF genIdx[p] + 1 = Len(Draws(kind[p]))
       THEN /\ genRes' = [genRes EXCEPT ![p] = "Ok"]
            /\ pc' = [pc EXCEPT ![p] = "driver"]
            /\ input' = [input EXCEPT ![p] =
                            IF kind[p] = "abac_afl" THEN AbacInput ELSE @]
       ELSE UNCHANGED <<genRes, pc, input>>
    /\ UNCHANGED <<cfgVars, asmVars, policyset, authLog, errors, diagVars, trial, valid, execVars, obs_out, test_name, pending,
                   fsVars, linesAtStart>>

\* one draw fails: `?` returns the error, no later draw is made; the
\* abac driver's map_err closure clears `valid`
DrawFail(p) ==
    /\ pc[p] = "gen"
    /\ genIdx[p] < Len(Draws(kind[p]))
    /\ genRes' = [genRes EXCEPT ![p] = "Err"]
    /\ valid' = [valid EXCEPT ![p] = IF kind[p] = "abac_afl" THEN FALSE ELSE @]
    /\ pc' = [pc EXCEPT ![p] = "driver"]
    /\ UNCHANGED <<cfgVars, asmVars, traceVars, diagVars, trial, genIdx, execVars, obs_out, test_name, pending,
                   fsVars, linesAtStart>>

\* abac-type-directed.rs 31: `test_abac_type_directed(&input.unwrap(), valid)`
AbacDriverCall(p) ==
    /\ kind[p] = "abac_afl"
    /\ pc[p] = "driver"
    /\ IF genRes[p] = "Err"
       THEN Panic(p, "input.unwrap", {"arbitrary_error"})
       ELSE /\ pc' = [pc EXCEPT ![p] = "call"]
            /\ UNCHANGED <<obs_out, abort, reported>>
    /\ UNCHANGED <<cfgVars, asmVars, traceVars, verdicts, trial, genVars, execVars, test_name, pending,
                   fsVars, linesAtStart>>

\* eval-type-directed.rs 29: `test_eval_type_directed(input)`
EvalDriverCall(p) ==
    /\ kind[p] = "eval_afl"
    /\ pc[p] = "driver"
    /\ pc' = [pc EXCEPT ![p] = "call"]
    /\ UNCHANGED <<cfgVars, asmVars, traceVars, diagVars, trial, genVars, execVars, obs_out, test_name, pending,
                   fsVars, linesAtStart>>

\* harnesses.rs 24-37 and 96-99
AbacEnter(p) ==
    /\ kind[p] \in AbacKinds
    /\ pc[p] = "call"
    /\ IF valid[p]
       THEN /\ obs_out' = [obs_out EXCEPT ![p] =
                              [AbacToTyche EXCEPT !.status = InitialStatus]]
            /\ policyset' = [policyset EXCEPT ![p] = AbacPolicySet(input[p])]
            /\ pc' = [pc EXCEPT ![p] = "schema"]
       ELSE /\ obs_out' = [obs_out EXCEPT ![p] = GenFailureRecord(TycheDefault)]
            /\ pc' = [pc EXCEPT ![p] = "toggle"]
            /\ UNCHANGED policyset
    /\ UNCHANGED <<cfgVars, asmVars, input, authLog, errors, diagVars, trial, genVars, execVars, test_name, pending,
                   fsVars, linesAtStart>>

\* harnesses.rs 38: `if let Ok(schema) = ValidatorSchema::try_from(..)`
AbacSchemaConvert(p) ==
    /\ kind[p] \in AbacKinds
    /\ pc[p] = "schema"
    /\ \E r \in {"Ok", "Err"} :
          /\ schemaRes' = [schemaRes EXCEPT ![p] = r]
          /\ pc' = [pc EXCEPT ![p] = IF r = "Ok" THEN "validate" ELSE "auth"]
    /\ UNCHANGED <<cfgVars, asmVars, traceVars, diagVars, trial, genVars, valErrs, reqIdx, total_auth_errors,
                   calls, wrongArgsAt, obs_out, test_name, pending, fsVars,
                   linesAtStart>>

\* harnesses.rs 39-55
AbacValidate(p) ==
    /\ kind[p] \in AbacKinds
    /\ pc[p] = "validate"
    /\ calls' = [calls EXCEPT ![p].validator = @ + 1]
    /\ \E n \in 0..MaxValErrs :
          /\ valErrs' = [valErrs EXCEPT ![p] = n]
          /\ obs_out' = [obs_out EXCEPT ![p] =
                            IF n = 0 THEN ValidationPassed(@)
                            ELSE ValidationFailed(@, n)]
    /\ pc' = [pc EXCEPT ![p] = "auth"]
    /\ UNCHANGED <<cfgVars, asmVars, traceVars, diagVars, trial, genVars, schemaRes, reqIdx, total_auth_errors,
                   wrongArgsAt, test_name, pending, fsVars, linesAtStart>>

\* harnesses.rs 66-86: one iteration of the request loop
AbacAuth(p) ==
    /\ kind[p] \in AbacKinds
    /\ pc[p] = "auth"
    /\ reqIdx[p] < NumRequests
    /\ calls' = [calls EXCEPT ![p].run_auth_test = @ + 1]
    /\ reqIdx' = [reqIdx EXCEPT ![p] = @ + 1]
    /\ authLog' = [authLog EXCEPT ![p] =
                      Append(@, AbacAuthArgs(input[p], policyset[p], reqIdx[p] + 1))]
    /\ \E d \in Diags :
          /\ wrongArgsAt' = [wrongArgsAt EXCEPT ![p] =
                IF \E i \in 1..Len(d) : d[i] = WrongArgsText
                THEN reqIdx[p] + 1 ELSE @]
          /\ IF WrongArgsErrors(d) # <<>>
             THEN /\ Panic(p, "assert_eq", {"errors"})
                  /\ total_auth_errors' = [total_auth_errors EXCEPT ![p] = 0]
                  /\ errors' = [errors EXCEPT ![p] = 0]
             ELSE /\ total_auth_errors' =
                        [total_auth_errors EXCEPT ![p] = Accumulate(@, d)]
                  /\ errors' = [errors EXCEPT ![p] = Len(d)]
                  /\ pc' = [pc EXCEPT ![p] = AfterAuth(reqIdx[p] + 1)]
                  /\ UNCHANGED <<obs_out, abort, reported>>
    /\ UNCHANGED <<cfgVars, asmVars, input, policyset, verdicts, trial, genVars, schemaRes, valErrs, test_name, pending,
                   fsVars, linesAtStart>>

\* harnesses.rs 87-95
AbacFinish(p) ==
    /\ kind[p] \in AbacKinds
    /\ pc[p] = "finish"
    /\ obs_out' = [obs_out EXCEPT ![p] = AbacFinished(@, total_auth_errors[p])]
    /\ pc' = [pc EXCEPT ![p] = "toggle"]
    /\ errors' = [errors EXCEPT ![p] = 0]
    /\ UNCHANGED <<cfgVars, asmVars, input, policyset, authLog, diagVars, trial, genVars, execVars, test_name, pending,
                   fsVars, linesAtStart>>

\* harnesses.rs 121-128 and 136-139
EvalEnter(p) ==
    /\ kind[p] = "eval_afl"
    /\ pc[p] = "call"
    /\ IF genRes[p] = "Ok"
       THEN /\ obs_out' = [obs_out EXCEPT ![p] = EvalToTyche]
            /\ pc' = [pc EXCEPT ![p] = "eval"]
       ELSE /\ obs_out' = [obs_out EXCEPT ![p] = GenFailureRecord(TycheDefault)]
            /\ pc' = [pc EXCEPT ![p] = "toggle"]
    /\ UNCHANGED <<cfgVars, asmVars, traceVars, diagVars, trial, genVars, execVars, test_name, pending,
                   fsVars, linesAtStart>>

\* harnesses.rs 129-135
EvalRun(p) ==
    /\ kind[p] = "eval_afl"
    /\ pc[p] = "eval"
    /\ calls' = [calls EXCEPT ![p].run_eval_test = @ + 1]
    /\ pc' = [pc EXCEPT ![p] = "toggle"]
    /\ UNCHANGED <<cfgVars, asmVars, traceVars, diagVars, trial, genVars, schemaRes, valErrs, reqIdx,
                   total_auth_errors, wrongArgsAt, obs_out, test_name, pending,
                   fsVars, linesAtStart>>

\* harnesses.rs 160-163
RbacEnter(p) ==
    /\ kind[p] = "rbac_fn"
    /\ pc[p] = "call"
    /\ obs_out' = [obs_out EXCEPT ![p] = RbacToTyche]
    /\ \E r \in {"Ok", "Err"} :
          /\ schemaRes' = [schemaRes EXCEPT ![p] = r]
          /\ pc' = [pc EXCEPT ![p] = IF r = "Ok" THEN "policyset" ELSE "toggle"]
    /\ UNCHANGED <<cfgVars, asmVars, traceVars, diagVars, trial, genVars, valErrs, reqIdx, total_auth_errors,
                   calls, wrongArgsAt, test_name, pending, fsVars, linesAtStart>>

\* harnesses.rs 164-177
RbacBuildPolicySet(p) ==
    /\ kind[p] = "rbac_fn"
    /\ pc[p] = "policyset"
    /\ policyset' = [policyset EXCEPT ![p] = RbacPolicySet(input[p].policy_groups)]
    /\ pc' = [pc EXCEPT ![p] = "auth"]
    /\ UNCHANGED <<cfgVars, asmVars, input, authLog, errors, diagVars, trial, genVars, execVars, obs_out, test_name, pending,
                   fsVars, linesAtStart>>

\* harnesses.rs 178-183: one iteration of the request loop
RbacAuth(p) ==
    /\ kind[p] = "rbac_fn"
    /\ pc[p] = "auth"
    /\ reqIdx[p] < NumRequests
    /\ calls' = [calls EXCEPT ![p].run_auth_test = @ + 1]
    /\ reqIdx' = [reqIdx EXCEPT ![p] = @ + 1]
    /\ pc' = [pc EXCEPT ![p] =
                IF reqIdx[p] + 1 = NumRequests THEN "toggle" ELSE "auth"]
    /\ authLog' = [authLog EXCEPT ![p] =
                      Append(@, RbacAuthArgs(input[p], policyset[p], reqIdx[p] + 1))]
    /\ UNCHANGED <<cfgVars, asmVars, input, policyset, errors, diagVars, trial, genVars, schemaRes, valErrs, total_auth_errors,
                   wrongArgsAt, obs_out, test_name, pending, fsVars, linesAtStart>>

\* simple-parser.rs 26-37
ParserStart(p) ==
    /\ kind[p] = "parser"
    /\ pc[p] = "name"
    /\ IF fuzzTarget[p] = "unset"
       THEN /\ Panic(p, "FUZZ_TARGET.unwrap", {"var_error"})
            /\ UNCHANGED test_name
       ELSE /\ UNCHANGED <<abort, reported>>
            /\ test_name' = [test_name EXCEPT ![p] = fuzzTarget[p]]
            /\ obs_out' = [obs_out EXCEPT ![p] = ParserObs("input", fuzzTarget[p])]
            /\ pc' = [pc EXCEPT ![p] = "parse"]
    /\ UNCHANGED <<cfgVars, asmVars, traceVars, verdicts, trial, genVars, execVars, pending, fsVars, linesAtStart>>

\* simple-parser.rs 38-69
ParserParse(p) ==
    /\ kind[p] = "parser"
    /\ pc[p] = "parse"
    /\ calls' = [calls EXCEPT ![p].parse = @ + 1]
    /\ \E r \in {"Ok", "Err", "ErrInvariant"} :
          IF r = "ErrInvariant"
          THEN Panic(p, "assert", {"errs"})
          ELSE /\ UNCHANGED <<abort, reported>>
               /\ obs_out' = [obs_out EXCEPT ![p] =
                     LET timed == [@ EXCEPT !.timing = @ \cup {"execute"}]
                     IN IF r = "Ok" THEN timed ELSE ParseFailed(timed)]
               /\ pc' = [pc EXCEPT ![p] = "toggle"]
    /\ UNCHANGED <<cfgVars, asmVars, traceVars, verdicts, trial, genVars, schemaRes, valErrs, reqIdx,
                   total_auth_errors, wrongArgsAt, test_name, pending, fsVars,
                   linesAtStart>>

ValDrtMode_m == "Permissive"

\* validation_drt_derived/main.rs 76: `ValidationMode::Strict`
ValDrtMode == "Strict"

\* run_val_test(&def_impl, schema, &policyset, mode): both validators get
\* the schema and the policy set of the call, and each gives its verdict
RunValTest(schema, policies, mode) ==
    {[mode |-> mode, rust_in |-> <<schema, policies>>,
      lean_in |-> <<schema, policies>>, rust |-> r, lean |-> l] :
        r \in {"pass", "fail"}, l \in {"pass", "fail"}}

\* validation_drt_derived/main.rs 66
ValDrtSchemaConvert(p) ==
    /\ kind[p] = "valdrt"
    /\ pc[p] = "val_schema"
    /\ \E r \in {"Ok", "Err"} :
          /\ schemaRes' = [schemaRes EXCEPT ![p] = r]
          /\ pc' = [pc EXCEPT ![p] = IF r = "Ok" THEN "run_val" ELSE "returned"]
    /\ UNCHANGED <<cfgVars, asmVars, traceVars, diagVars, trial, genVars, valErrs, reqIdx,
                   total_auth_errors, calls, wrongArgsAt, obs_out, test_name,
                   pending, fsVars, linesAtStart>>

\* validation_drt_derived/main.rs 69-78; a disagreement of the verdicts
\* panics inside run_val_test
ValDrtRunValTest(p) ==
    /\ kind[p] = "valdrt"
    /\ pc[p] = "run_val"
    /\ calls' = [calls EXCEPT ![p].run_val_test = @ + 1]
    /\ \E v \in RunValTest("schema", "policyset", ValDrtMode) :
          /\ verdicts' = [verdicts EXCEPT ![p] = v]
          /\ IF v.rust # v.lean
             THEN Panic(p, "run_val_test", {"rust_verdict", "lean_verdict"})
             ELSE /\ pc' = [pc EXCEPT ![p] = "returned"]
                  /\ UNCHANGED <<obs_out, abort, reported>>
    /\ UNCHANGED <<cfgVars, asmVars, traceVars, trial, genVars, schemaRes, valErrs, reqIdx,
                   total_auth_errors, wrongArgsAt, test_name, pending, fsVars,
                   linesAtStart>>

\* schema-roundtrip.rs 95-98: `as_natural_schema().expect(..)`
RoundtripConvert(p) ==
    /\ kind[p] = "roundtrip"
    /\ pc[p] = "convert"
    /\ \E r \in {"Ok", "Err"} :
          IF r = "Err"
          THEN Panic(p, "as_natural_schema.expect", {"convert_error"})
          ELSE /\ pc' = [pc EXCEPT ![p] = "reparse"]
               /\ UNCHANGED <<obs_out, abort, reported>>
    /\ UNCHANGED <<cfgVars, asmVars, traceVars, verdicts, trial, genVars, execVars, test_name,
                   pending, fsVars, linesAtStart>>

\* schema-roundtrip.rs 99-100: `from_str_natural(&src).expect(..)`; the
\* panic message is the text of the `expect` and the parse error
RoundtripReparse(p) ==
    /\ kind[p] = "roundtrip"
    /\ pc[p] = "reparse"
    /\ \E r \in {"Ok", "Err"} :
          IF r = "Err"
          THEN Panic(p, "from_str_natural.expect", {"parse_error"})
          ELSE /\ pc' = [pc EXCEPT ![p] = "equiv"]
               /\ UNCHANGED <<obs_out, abort, reported>>
    /\ UNCHANGED <<cfgVars, asmVars, traceVars, verdicts, trial, genVars, execVars, test_name,
                   pending, fsVars, linesAtStart>>

\* schema-roundtrip.rs 101-113: on Err(msg) the text, the diff of the
\* generated and the reparsed schema are printed and the target panics
RoundtripEquivalence(p) ==
    /\ kind[p] = "roundtrip"
    /\ pc[p] = "equiv"
    /\ \E r \in {"Ok", "Err"} :
          IF r = "Err"
          THEN Panic(p, "equivalence_check",
                     {"text", "generated", "reparsed", "msg"})
          ELSE /\ pc' = [pc EXCEPT ![p] = "toggle"]
               /\ UNCHANGED <<obs_out, abort, reported>>
    /\ UNCHANGED <<cfgVars, asmVars, traceVars, verdicts, trial, genVars, execVars, test_name,
                   pending, fsVars, linesAtStart>>

\* schema-roundtrip.rs 114-124.  The target uses `obs_out` without binding
\* it; it is taken to be the record of `to_tyche`, as in the test this
\* block comes from (tests/abac-type-directed/main.rs 168).
RoundtripEmitToggle(p) ==
    /\ kind[p] = "roundtrip"
    /\ pc[p] = "toggle"
    /\ IF ~ObservabilityOn(obsEnv[p])
       THEN /\ pc' = [pc EXCEPT ![p] = "returned"]
            /\ UNCHANGED <<obs_out, abort, reported, test_name>>
       ELSE IF fuzzTarget[p] = "unset"
       THEN /\ Panic(p, "FUZZ_TARGET.unwrap", {"var_error"})
            /\ UNCHANGED test_name
       ELSE /\ test_name' = [test_name EXCEPT ![p] = fuzzTarget[p]]
            /\ obs_out' = [obs_out EXCEPT ![p] =
                  [RoundtripToTyche EXCEPT !.timing = @ \cup {"generate", "execute"}]]
            /\ pc' = [pc EXCEPT ![p] = "mkdir"]
            /\ UNCHANGED <<abort, reported>>
    /\ UNCHANGED <<cfgVars, asmVars, traceVars, verdicts, trial, genVars, execVars, pending,
                   fsVars, linesAtStart>>

\* harnesses.rs 100-101, 140-141, 185-186; simple-parser.rs 70
EmitToggle(p) ==
    /\ kind[p] # "roundtrip"
    /\ pc[p] = "toggle"
    /\ IF ObservabilityOn(obsEnv[p])
       THEN /\ test_name' = [test_name EXCEPT ![p] =
                   IF kind[p] = "parser" THEN @
                   ELSE TestName(kind[p], fuzzTarget[p])]
            /\ pc' = [pc EXCEPT ![p] = "mkdir"]
       ELSE /\ pc' = [pc EXCEPT ![p] = "returned"]
            /\ UNCHANGED test_name
    /\ UNCHANGED <<cfgVars, asmVars, traceVars, diagVars, trial, genVars, execVars, obs_out, pending, fsVars,
                   linesAtStart>>

\* harnesses.rs 105-106: create_dir_all
EmitMkdir(p) ==
    /\ pc[p] = "mkdir"
    /\ dirs' = dirs \cup {OutDir(kind[p])}
    /\ pc' = [pc EXCEPT ![p] = "open"]
    /\ UNCHANGED <<cfgVars, asmVars, traceVars, diagVars, trial, genVars, execVars, obs_out, test_name, pending,
                   created, files, linesAtStart>>

\* harnesses.rs 109-115: create-or-append open, then the record as JSON
EmitOpen(p) ==
    /\ pc[p] = "open"
    /\ created' = created \cup {<<OutDir(kind[p]), test_name[p]>>}
    /\ pending' = [pending EXCEPT ![p] = WriteFmtPieces(p, trial[p], obs_out[p])]
    /\ files' = [files EXCEPT ![<<OutDir(kind[p]), test_name[p]>>] = OpenAppend(@)]
    /\ pc' = [pc EXCEPT ![p] = "write"]
    /\ UNCHANGED <<cfgVars, asmVars, traceVars, diagVars, trial, genVars, execVars, obs_out, test_name, dirs,
                   linesAtStart>>

\* harnesses.rs 116: one write of the writeln!, at the end of the file
EmitWrite(p) ==
    /\ pc[p] = "write"
    /\ pending[p] # <<>>
    /\ files' = [files EXCEPT ![<<OutDir(kind[p]), test_name[p]>>] =
                    Append(@, Head(pending[p]))]
    /\ pending' = [pending EXCEPT ![p] = Tail(@)]
    /\ pc' = [pc EXCEPT ![p] =
                IF Tail(pending[p]) = <<>> THEN AfterWrite(kind[p]) ELSE "write"]
    /\ UNCHANGED <<cfgVars, asmVars, traceVars, diagVars, trial, genVars, execVars, obs_out, test_name, dirs,
                   created, linesAtStart>>

Next ==
    \E p \in Procs :
        \/ StartTrial(p)
        \/ DrawOk(p)
        \/ DrawFail(p)
        \/ AbacDriverCall(p)
        \/ EvalDriverCall(p)
        \/ AbacEnter(p)
        \/ AbacSchemaConvert(p)
        \/ AbacValidate(p)
        \/ AbacAuth(p)
        \/ AbacFinish(p)
        \/ EvalEnter(p)
        \/ EvalRun(p)
        \/ RbacEnter(p)
        \/ RbacBuildPolicySet(p)
        \/ RbacAuth(p)
        \/ ParserStart(p)
        \/ ParserParse(p)
        \/ ValDrtSchemaConvert(p)
        \/ ValDrtRunValTest(p)
        \/ RoundtripConvert(p)
        \/ RoundtripReparse(p)
        \/ RoundtripEquivalence(p)
        \/ RoundtripEmitToggle(p)
        \/ EmitToggle(p)
        \/ EmitMkdir(p)
        \/ EmitOpen(p)
        \/ EmitWrite(p)

Spec == Init /\ [][Next]_vars

\* one harness process, observability on, two trials: the one observed and
\* the one before it
InitSeq ==
    /\ kind \in {k \in [Procs -> Kinds \cup DerivedKinds \cup {"off"}] :
                    k[1] # "off" /\ k[2] = "off"}
    /\ obsEnv = [p \in Procs |-> p = 1]
    /\ fuzzTarget \in {e \in [Procs -> {"unset", "t1"}] : e[2] = "unset"}
    /\ budget = [p \in Procs |-> IF p = 1 THEN 2 ELSE 0]
    /\ InitLocals
    /\ AsmOff

SpecSeq == InitSeq /\ [][Next]_vars

SpecConc == InitConc /\ [][Next]_vars

\* ---------------------------------------------------------- the assemblers
\* The `arbitrary` implementations of the scenario inputs, one draw at a
\* time.  The generators of cedar_policy_generators are external: a draw
\* either fails (the `?` returns the error) or yields one of the values the
\* interface allows.
AsmKinds == {"abac_afl", "eval_afl", "rbac_fn"}

\* the requests a generator can build for a hierarchy: principal and
\* resource are entities of the hierarchy
ArbitraryRequest(h) == {[principal |-> a, resource |-> b] : a \in h, b \in h}

\* `drop_some_entities(all_entities, u)`: some of the entities, chosen from
\* the entities and the byte stream alone
DropSomeEntities(all) == SUBSET all

AsmAt(ds) ==
    /\ asmKind # "off"
    /\ asmRes = "none"
    /\ asmIdx < Len(Draws(asmKind))
    /\ Draws(asmKind)[asmIdx + 1] \in ds

\* schema, policy, toplevel_type, expression: values the claims do not look into
AsmOpaque ==
    /\ AsmAt({"schema", "policy", "toplevel_type", "expression"})
    /\ asmIdx' = asmIdx + 1
    /\ UNCHANGED <<asmKind, asmRes, failedAt, hierarchy, requests, referenced, entities,
                   policy_groups>>

AsmHierarchy ==
    /\ AsmAt({"hierarchy"})
    /\ asmIdx' = asmIdx + 1
    /\ hierarchy' \in SUBSET EntityIds
    /\ UNCHANGED <<asmKind, asmRes, failedAt, requests, referenced, entities, policy_groups>>

\* rbac.rs 149-151
AsmPolicyGroups ==
    /\ AsmAt({"policy_groups"})
    /\ asmIdx' = asmIdx + 1
    /\ \E g \in GroupCounts :
          \E sl \in [1..g -> SUBSET Slots], ln \in [1..g -> LinkCounts] :
              policy_groups' = [i \in 1..g |-> PolicyGroupFor(i - 1, sl[i], ln[i])]
    /\ UNCHANGED <<asmKind, asmRes, failedAt, hierarchy, requests, referenced, entities>>

\* one `arbitrary_request(&hierarchy, u)?`
AsmRequest ==
    /\ AsmAt({"request"})
    /\ asmIdx' = asmIdx + 1
    /\ requests' = requests + 1
    /\ \E r \in ArbitraryRequest(hierarchy) :
          referenced' = referenced \cup {r.principal, r.resource}
    /\ UNCHANGED <<asmKind, asmRes, failedAt, hierarchy, entities, policy_groups>>

\* `Entities::try_from(hierarchy)`
AsmEntities ==
    /\ AsmAt({"entities"})
    /\ asmIdx' = asmIdx + 1
    /\ entities' = hierarchy
    /\ UNCHANGED <<asmKind, asmRes, failedAt, hierarchy, requests, referenced, policy_groups>>

\* `drop_some_entities(all_entities, u)?`
AsmDropSomeEntities ==
    /\ AsmAt({"drop_some_entities"})
    /\ asmIdx' = asmIdx + 1
    /\ entities' \in DropSomeEntities(entities)
    /\ UNCHANGED <<asmKind, asmRes, failedAt, hierarchy, requests, referenced, policy_groups>>

AsmFail_m ==
    /\ AsmAt({"schema", "hierarchy", "policy", "toplevel_type", "expression",
              "policy_groups", "request", "entities", "drop_some_entities"})
    /\ failedAt' = asmIdx + 1
    /\ asmIdx' = asmIdx + 1
    /\ UNCHANGED <<asmKind, asmRes, hierarchy, requests, referenced, entities,
                   policy_groups>>

\* a draw fails: `?` returns the error and no later draw is made
AsmFail ==
    /\ AsmAt({"schema", "hierarchy", "policy", "toplevel_type", "expression",
              "policy_groups", "request", "entities", "drop_some_entities"})
    /\ failedAt' = asmIdx + 1
    /\ asmRes' = "Err"
    /\ UNCHANGED <<asmKind, asmIdx, hierarchy, requests, referenced, entities,
                   policy_groups>>

\* `Ok(Self { .. })`
AsmReturn ==
    /\ asmKind # "off"
    /\ asmRes = "none"
    /\ asmIdx = Len(Draws(asmKind))
    /\ asmRes' = "Ok"
    /\ UNCHANGED <<asmKind, asmIdx, failedAt, hierarchy, requests, referenced, entities,
                   policy_groups>>

harnessVars == <<cfgVars, pc, trial, genVars, execVars, obs_out, test_name,
                 pending, fsVars, linesAtStart, diagVars, traceVars>>

\* one run of one assembler, no harness process
InitAsm ==
    /\ kind = [p \in Procs |-> "off"]
    /\ obsEnv = [p \in Procs |-> FALSE]
    /\ fuzzTarget = [p \in Procs |-> "unset"]
    /\ budget = [p \in Procs |-> 0]
    /\ InitLocals
    /\ asmKind \in AsmKinds
    /\ asmIdx = 0
    /\ asmRes = "none"
    /\ failedAt = 0
    /\ hierarchy = {}
    /\ requests = 0
    /\ referenced = {}
    /\ entities = {}
    /\ policy_groups = <<>>

NextAsm ==
    /\ \/ AsmOpaque
       \/ AsmHierarchy
       \/ AsmPolicyGroups
       \/ AsmRequest
       \/ AsmEntities
       \/ AsmDropSomeEntities
       \/ AsmFail
       \/ AsmReturn
    /\ UNCHANGED harnessVars

SpecAsm == InitAsm /\ [][NextAsm]_vars

\* ------------------------------------------------------ derived notions
Terminal(p) == pc[p] \in {"returned", "panicked"}

\* the process is inside its harness function (or has returned from it)
Entered(p) == pc[p] \notin {"idle", "gen", "driver", "call", "panicked"}

\* the status a trial ends with: a panic is how a trial fails
EndStatus(p) ==
    IF pc[p] = "panicked" THEN "failed"
    ELSE IF pc[p] = "returned" THEN obs_out[p].status ELSE "running"

GenerationFailed(p) ==
    \/ kind[p] \in AbacKinds /\ ~valid[p]
    \/ kind[p] \in {"abac_afl", "eval_afl"} /\ genRes[p] = "Err"

\* the JSON texts the current trial of p has put into the files
OwnRecords(p) ==
    UNION {{<<q, i>> : i \in {j \in 1..Len(files[q]) :
                                 /\ files[q][j].part = "json"
                                 /\ files[q][j].owner = p
                                 /\ files[q][j].trial = trial[p]}} : q \in Paths}

IsPrefix(a, b) == Len(a) <= Len(b) /\ SubSeq(b, 1, Len(a)) = a

\* every line of the file is one JSON text and its newline, from one trial
LinesIntact(f) ==
    \A i \in 1..Len(f) :
        /\ (f[i].part = "json" /\ i < Len(f)) =>
              /\ f[i + 1].part = "nl"
              /\ f[i + 1].owner = f[i].owner
              /\ f[i + 1].trial = f[i].trial
        /\ f[i].part = "nl" =>
              /\ i > 1
              /\ f[i - 1].part = "json"
              /\ f[i - 1].owner = f[i].owner

Alone(p) == \A q \in Procs \ {p} : kind[q] = "off"

\* ----------------------------------------------------------------- claims

\* C1: when the harness function is entered after a failed generation
\* (test_abac_type_directed with valid = false, test_eval_type_directed with
\* an Err input) its record has status gave_up and a reason containing
\* "generation failed", every line the trial writes carries that record, and
\* no oracle is invoked in the trial.
C1_GenerationFailureGivesUp ==
    \A p \in Procs :
        (GenerationFailed(p) /\ Entered(p)) =>
            /\ obs_out[p].status = "gave_up"
            /\ Contains(obs_out[p].status_reason, <<"generation", "failed">>)
            /\ TotalCalls(p) = 0
            /\ \A e \in OwnRecords(p) : files[e[1]][e[2]].rec = obs_out[p]

C1_Witness ==
    \E p \in Procs :
        /\ kind[p] = "abac_fn" /\ ~valid[p] /\ pc[p] = "returned"
        /\ OwnRecords(p) # {}

\* C2: a byte buffer on which the assembler returns an error ends the trial
\* of the abac-type-directed driver in GaveUp, never in a panic.
C2_AbacDriverGivesUp ==
    \A p \in Procs :
        (kind[p] = "abac_afl" /\ genRes[p] = "Err" /\ Terminal(p)) =>
            /\ pc[p] = "returned"
            /\ obs_out[p].status = "gave_up"

\* C3 as stated: after a schema that fails to convert, the ABAC trial is
\* gave_up and run_auth_test is never invoked.
C3_NoAuthAfterSchemaRejected ==
    \A p \in Procs :
        (kind[p] \in AbacKinds /\ schemaRes[p] = "Err") =>
            /\ calls[p].run_auth_test = 0
            /\ pc[p] # "panicked" => obs_out[p].status = "gave_up"

\* C3 as amended: after a schema that fails to convert, the validator is
\* not invoked and the status stays gave_up (also in the line written), but
\* the requests are still authorized: 8 invocations of run_auth_test in a
\* trial that returns.
C3_SchemaRejectedStillAuthorizes ==
    \A p \in Procs :
        (kind[p] \in AbacKinds /\ schemaRes[p] = "Err") =>
            /\ calls[p].validator = 0
            /\ pc[p] # "panicked" => obs_out[p].status = "gave_up"
            /\ pc[p] = "returned" => calls[p].run_auth_test = NumRequests
            /\ \A e \in OwnRecords(p) :
                  /\ files[e[1]][e[2]].rec.status = "gave_up"
                  /\ calls[p].run_auth_test = NumRequests

C3_Witness ==
    \E p \in Procs :
        /\ kind[p] \in AbacKinds /\ schemaRes[p] = "Err" /\ pc[p] = "returned"
        /\ calls[p].run_auth_test = NumRequests
        /\ OwnRecords(p) # {}

\* C4 as stated: a trial ends in GaveUp only after a rejected schema or a
\* failed generation, and an ABAC trial whose schema was accepted and which
\* executed ends in Passed or Failed.
C4_StateMachine ==
    \A p \in Procs :
        Terminal(p) =>
            /\ EndStatus(p) = "gave_up" =>
                  (schemaRes[p] = "Err" \/ GenerationFailed(p))
            /\ (kind[p] \in AbacKinds /\ schemaRes[p] = "Ok"
                    /\ calls[p].run_auth_test > 0) =>
                  EndStatus(p) \in {"passed", "failed"}

\* C4 as amended: a trial ends in GaveUp only after a rejected schema, a
\* failed generation or a policy the validator rejected, and an ABAC trial
\* whose schema was accepted, whose policy validated and which executed ends
\* in Passed or Failed.
C4_GaveUpOrigins ==
    \A p \in Procs :
        Terminal(p) =>
            /\ EndStatus(p) = "gave_up" =>
                  (schemaRes[p] = "Err" \/ GenerationFailed(p) \/ valErrs[p] > 0)
            /\ (kind[p] \in AbacKinds /\ schemaRes[p] = "Ok" /\ valErrs[p] = 0
                    /\ calls[p].run_auth_test > 0) =>
                  EndStatus(p) \in {"passed", "failed"}

C4_Witness ==
    \E p \in Procs :
        /\ kind[p] \in AbacKinds /\ schemaRes[p] = "Ok" /\ valErrs[p] > 0
        /\ calls[p].run_auth_test = NumRequests
        /\ pc[p] = "returned" /\ obs_out[p].status = "gave_up"

\* C5: with observability on, a trial that ended with a terminal status
\* (passed, failed, gave_up) has exactly one record in the log, and the
\* record carries that status.
C5_TerminalStatusRecorded ==
    \A p \in Procs :
        (ObservabilityOn(obsEnv[p]) /\ Terminal(p) /\ EndStatus(p) \in Statuses) =>
            /\ Cardinality(OwnRecords(p)) = 1
            /\ \A e \in OwnRecords(p) : files[e[1]][e[2]].rec.status = EndStatus(p)

\* C6: once the diagnostics of a request carry a "wrong number of
\* arguments" error the trial has halted with a panic: that request is the
\* last one authorized and the trial writes no record (so none with passed
\* or gave_up).
C6_WrongArgsHaltsTrial ==
    \A p \in Procs :
        wrongArgsAt[p] > 0 =>
            /\ pc[p] = "panicked"
            /\ calls[p].run_auth_test = wrongArgsAt[p]
            /\ EndStatus(p) \notin {"passed", "gave_up"}
            /\ OwnRecords(p) = {}

C6_Witness ==
    \E p \in Procs :
        /\ wrongArgsAt[p] > 1 /\ wrongArgsAt[p] < NumRequests
        /\ valErrs[p] = 0
        /\ pc[p] = "panicked"

\* C7: within a trial every draw of the assembler precedes the first oracle
\* invocation (an oracle runs only on a completed, successful generation),
\* and every oracle invocation precedes the emission: once the trial has
\* begun to emit, no oracle is invoked and no draw is made.
C7_PhasesOrdered ==
    [][\A p \in Procs :
          trial'[p] = trial[p] =>
              /\ calls'[p] # calls[p] =>
                    /\ kind[p] \in {"abac_afl", "eval_afl"} =>
                          /\ genRes[p] = "Ok"
                          /\ genIdx[p] = Len(Draws(kind[p]))
                    /\ pc[p] \notin {"toggle", "mkdir", "open", "write", "returned"}
                    /\ pending[p] = <<>>
                    /\ OwnRecords(p) = {}
              /\ (genIdx'[p] # genIdx[p] \/ genRes'[p] # genRes[p]) =>
                    TotalCalls(p) = 0 /\ OwnRecords(p) = {}
              /\ files' # files => calls'[p] = calls[p] /\ genIdx'[p] = genIdx[p]]_vars

C7_Witness ==
    \E p \in Procs :
        /\ kind[p] = "abac_afl" /\ genRes[p] = "Ok"
        /\ calls[p].validator = 1 /\ calls[p].run_auth_test = NumRequests
        /\ pc[p] = "returned" /\ OwnRecords(p) # {}

\* C8: emission (of a harness that carries a recorder) is gated by
\* DRT_OBSERVABILITY: a process that runs without
\* it creates no directory, no file and appends nothing; with it, a trial
\* that returns has appended exactly one line, a JSON text and its newline.
C8_EmissionGated ==
    \A p \in Procs :
        (kind[p] \in Kinds /\ Alone(p)) =>
            /\ ~obsEnv[p] =>
                  /\ dirs = {} /\ created = {}
                  /\ \A q \in Paths : files[q] = <<>>
            /\ (obsEnv[p] /\ pc[p] = "returned") =>
                  /\ TotalLines = linesAtStart[p] + 1
                  /\ Cardinality(OwnRecords(p)) = 1
                  /\ OutDir(kind[p]) \in dirs
                  /\ \A q \in Paths : files[q] # <<>> => q \in created
            /\ \A q \in Paths : LinesIntact(files[q])

C8_Witness ==
    \E p \in Procs :
        /\ obsEnv[p] /\ pc[p] = "returned"
        /\ TotalLines = linesAtStart[p] + 1

\* C9: under any interleaving of processes appending to the same file,
\* what is in the file stays as a prefix and every line is one whole
\* record: no record is split by another process's write.
C9_AppendOnlyLog ==
    [][\A q \in Paths :
          /\ IsPrefix(files[q], files'[q])
          /\ LinesIntact(files'[q])]_vars

\* C10: every record in the log has a status among passed, failed, gave_up.
C10_RecordStatusValid ==
    \A q \in Paths :
        \A i \in 1..Len(files[q]) :
            files[q][i].part = "json" => files[q][i].rec.status \in Statuses

\* C11: every record in the log has a timing map with a `generate` entry
\* and an `execute` entry, whatever the harness and the status.
C11_RecordTimingComplete ==
    \A q \in Paths :
        \A i \in 1..Len(files[q]) :
            files[q][i].part = "json" =>
                {"generate", "execute"} \subseteq files[q][i].rec.timing

\* C12: every successfully assembled scenario, of every kind, has a batch
\* of exactly 8 requests.
C12_EightRequests ==
    asmRes = "Ok" => requests = NumRequests

GroupPositions == {<<g, 0>> : g \in 1..Len(policy_groups)}
LinkPositions ==
    UNION {{<<g, l>> : l \in 1..Len(policy_groups[g].links)} :
              g \in 1..Len(policy_groups)}
IdAt(pos) ==
    IF pos[2] = 0 THEN policy_groups[pos[1]].template.id
    ELSE policy_groups[pos[1]].links[pos[2]].id

\* C14: every TemplateWithLinks group has between 1 and 4 links, and every
\* link binds every slot of its template.
C14_LinksBounded ==
    \A g \in 1..Len(policy_groups) :
        policy_groups[g].tag = "TemplateWithLinks" =>
            /\ Len(policy_groups[g].links) >= 1
            /\ Len(policy_groups[g].links) <= 4
            /\ \A l \in 1..Len(policy_groups[g].links) :
                  policy_groups[g].template.slots
                      \subseteq policy_groups[g].links[l].bound

C14_Witness ==
    /\ asmRes = "Ok"
    /\ \E g \in 1..Len(policy_groups) :
          /\ policy_groups[g].tag = "TemplateWithLinks"
          /\ Len(policy_groups[g].links) = 4
          /\ policy_groups[g].template.slots = Slots

\* C15: a group is a TemplateWithLinks exactly when its policy has at least
\* one slot; a policy without slots is a StaticPolicy and carries no links.
C15_TemplateIffSlots ==
    \A g \in 1..Len(policy_groups) :
        /\ policy_groups[g].tag \in {"TemplateWithLinks", "StaticPolicy"}
        /\ policy_groups[g].tag = "TemplateWithLinks"
              <=> policy_groups[g].template.slots # {}
        /\ policy_groups[g].tag = "StaticPolicy" => policy_groups[g].links = <<>>

C15_Witness ==
    /\ asmRes = "Ok"
    /\ Len(policy_groups) = 2
    /\ policy_groups[1].tag = "StaticPolicy"
    /\ policy_groups[2].tag = "TemplateWithLinks"

\* C16: the identifiers of one RBAC scenario are pairwise distinct, and each
\* is the text fixed by its position: "p<group>" for the policy or template
\* of a group, "t<group>_l<link>" for a link, indices counted from 0.
C16_IdentifiersDistinct ==
    /\ \A a \in GroupPositions \cup LinkPositions :
          \A b \in GroupPositions \cup LinkPositions :
              a # b => IdAt(a) # IdAt(b)
    /\ \A a \in GroupPositions : IdAt(a) = <<"p">> \o Digits(a[1] - 1)
    /\ \A a \in LinkPositions :
          IdAt(a) = <<"t">> \o Digits(a[1] - 1) \o <<"_", "l">> \o Digits(a[2] - 1)

C16_Witness ==
    /\ asmRes = "Ok"
    /\ Len(policy_groups) = 2
    /\ Len(policy_groups[1].links) = 4
    /\ Len(policy_groups[2].links) = 4

\* C18: in the schema round trip a parse failure of the converted text is
\* handled like a structural difference: the trial fails, it reports the
\* generated schema, the intermediate text and the reparsed schema or the
\* parse error, and it does not end as passed.
C18_ParseFailureIsMismatch ==
    \A p \in Procs :
        (kind[p] = "roundtrip" /\ abort[p] = "from_str_natural.expect") =>
            /\ EndStatus(p) = "failed"
            /\ {"generated", "text"} \subseteq reported[p]
            /\ "reparsed" \in reported[p] \/ "parse_error" \in reported[p]

\* C19: in a validation-drt trial both validators run, in Strict mode and on
\* the same schema and policy set, only after the schema converted; a trial
\* whose verdicts differ fails; after a failed conversion neither validator
\* is invoked.
C19_ValidatorsCompared ==
    \A p \in Procs :
        kind[p] = "valdrt" =>
            /\ schemaRes[p] # "Ok" =>
                  calls[p].run_val_test = 0 /\ verdicts[p] = NoVerdicts
            /\ calls[p].run_val_test > 0 =>
                  /\ verdicts[p].mode = "Strict"
                  /\ verdicts[p].rust # "none" /\ verdicts[p].lean # "none"
                  /\ verdicts[p].rust_in = verdicts[p].lean_in
                  /\ verdicts[p].rust # verdicts[p].lean => EndStatus(p) = "failed"
                  /\ verdicts[p].rust = verdicts[p].lean => pc[p] = "returned"

C19_Witness ==
    \E p \in Procs :
        /\ kind[p] = "valdrt" /\ schemaRes[p] = "Ok"
        /\ verdicts[p].rust = "pass" /\ verdicts[p].lean = "fail"
        /\ pc[p] = "panicked"

\* C20: with FUZZ_TARGET unset no trial is aborted for the missing name,
\* with observability on or off, and a trial that emits uses the default
\* name of its harness.
C20_UnsetNameFallsBack ==
    \A p \in Procs :
        fuzzTarget[p] = "unset" =>
            /\ abort[p] # "FUZZ_TARGET.unwrap"
            /\ pc[p] \in {"mkdir", "open", "write"} =>
                  test_name[p] = DefaultName(kind[p])

\* the trial of p is an ABAC trial past its validation phase
AbacPastValidation(p) ==
    /\ kind[p] \in AbacKinds
    /\ valid[p]
    /\ pc[p] \in {"auth", "finish", "toggle", "mkdir", "open", "write", "returned"}

\* the requests the run_auth_test calls of the trial were given, in call order
RequestsAuthorized(p) == [i \in 1..Len(authLog[p]) |-> authLog[p][i].request]

C23_OraclesReadOnly ==
    /\ [][\A p \in Procs :
            TotalCalls(p)' > TotalCalls(p) =>
                /\ input'[p] = input[p]
                /\ policyset'[p] = policyset[p]]_vars
    /\ [](\A p \in Procs : \A i \in 1..Len(authLog[p]) :
            /\ authLog[p][i].request = input[p].requests[i]
            /\ authLog[p][i].policyset = policyset[p]
            /\ authLog[p][i].policyset = authLog[p][1].policyset
            /\ authLog[p][i].entities = authLog[p][1].entities)

C23_Witness ==
    \E p \in Procs :
        /\ kind[p] \in AbacKinds /\ pc[p] = "returned"
        /\ Len(authLog[p]) = NumRequests
        /\ authLog[p][NumRequests].policyset = <<"policy">>

\* C26: in an ABAC trial every authorization adds the number of its errors
\* to total_auth_errors, which starts at 0, and once all requests are
\* executed the record's total_auth_errors feature is that sum.
C26_TotalIsSumOfErrors ==
    /\ [][\A p \in Procs :
            (kind[p] \in AbacKinds /\ reqIdx'[p] = reqIdx[p] + 1
                /\ pc'[p] # "panicked") =>
                total_auth_errors'[p] = total_auth_errors[p] + errors'[p]]_vars
    /\ [](\A p \in Procs :
            /\ (kind[p] \in AbacKinds /\ reqIdx[p] = 0) => total_auth_errors[p] = 0
            /\ (AbacPastValidation(p) /\ pc[p] \notin {"auth", "finish"}) =>
                  /\ reqIdx[p] = NumRequests
                  /\ {e \in obs_out[p].features : e[1] = "total_auth_errors"}
                        = {<<"total_auth_errors", total_auth_errors[p]>>})

C26_Witness ==
    \E p \in Procs :
        /\ kind[p] \in AbacKinds /\ pc[p] = "returned"
        /\ reqIdx[p] = NumRequests
        /\ total_auth_errors[p] >= 2
        /\ <<"total_auth_errors", total_auth_errors[p]>> \in obs_out[p].features

\* C28: from the end of the validation phase on, through every
\* authorization and up to the return, the status of an ABAC trial is
\* passed exactly if the schema converted and the validator found no error,
\* whatever the authorizations return; a validation failure leaves gave_up
\* with validation_errors the number of validation errors.
C28_StatusFixedByValidation ==
    \A p \in Procs :
        AbacPastValidation(p) =>
            /\ obs_out[p].status = "passed" <=>
                  (schemaRes[p] = "Ok" /\ valErrs[p] = 0)
            /\ (schemaRes[p] = "Ok" /\ valErrs[p] > 0) =>
                  /\ obs_out[p].status = "gave_up"
                  /\ <<"validation_errors", valErrs[p]>> \in obs_out[p].features

C28_Witness ==
    \E p \in Procs :
        /\ AbacPastValidation(p) /\ pc[p] = "returned"
        /\ total_auth_errors[p] > 0
        /\ obs_out[p].status = "passed"

\* the place of an identifier in the policy set (0: it was not added)
PlaceOf(ps, id) ==
    IF \E i \in 1..Len(ps) : ps[i] = id
    THEN CHOOSE i \in 1..Len(ps) : ps[i] = id ELSE 0

\* C29: in test_rbac every authorization is given the policy set with all
\* the policies of all the groups; in it a template stands before each of
\* its links and the groups stand in generated order; and when the
\* hierarchy does not convert to entities no policy is added, no request is
\* authorized, and the record is still written when observability is on.
C29_PolicySetBuiltInOrder ==
    \A p \in Procs :
        kind[p] = "rbac_fn" =>
            LET groups == input[p].policy_groups
                ps == policyset[p]
            IN  /\ \A i \in 1..Len(authLog[p]) :
                      LET given == authLog[p][i].policyset
                      IN  /\ \A g \in 1..Len(groups) :
                                /\ PlaceOf(given, groups[g].template.id) > 0
                                /\ \A l \in 1..Len(groups[g].links) :
                                      PlaceOf(given, groups[g].links[l].id) > 0
                /\ \A g \in 1..Len(groups) :
                      \A l \in 1..Len(groups[g].links) :
                          PlaceOf(ps, groups[g].links[l].id) > 0 =>
                              /\ PlaceOf(ps, groups[g].template.id) > 0
                              /\ PlaceOf(ps, groups[g].template.id)
                                    < PlaceOf(ps, groups[g].links[l].id)
                /\ \A g, h \in 1..Len(groups) :
                      (g < h /\ PlaceOf(ps, groups[h].template.id) > 0) =>
                          /\ PlaceOf(ps, groups[g].template.id)
                                < PlaceOf(ps, groups[h].template.id)
                          /\ \A l \in 1..Len(groups[g].links) :
                                PlaceOf(ps, groups[g].links[l].id)
                                    < PlaceOf(ps, groups[h].template.id)
                /\ schemaRes[p] = "Err" =>
                      /\ ps = <<>>
                      /\ authLog[p] = <<>>
                      /\ calls[p].run_auth_test = 0
                      /\ (ObservabilityOn(obsEnv[p]) /\ pc[p] = "returned") =>
                            Cardinality(OwnRecords(p)) = 1

C29_Witness ==
    \E p \in Procs :
        /\ kind[p] = "rbac_fn" /\ pc[p] = "returned"
        /\ Len(input[p].policy_groups) = MaxGroups
        /\ input[p].policy_groups[1].tag = "TemplateWithLinks"
        /\ Len(input[p].policy_groups[1].links) = MaxLinks
        /\ Len(authLog[p]) = NumRequests
        /\ Len(policyset[p]) > MaxLinks + 1

\* the draws the assembler has made, in the order it made them
Drawn == SubSeq(Draws(asmKind), 1, asmIdx) \o
            (IF failedAt > 0 /\ failedAt <= Len(Draws(asmKind))
             THEN <<Draws(asmKind)[failedAt]>> ELSE <<>>)

\* the place of a sub-generator in the order schema, hierarchy, policy (or
\* target type, then expression), requests, entities
DrawRank(d) ==
    CASE d = "schema" -> 1
      [] d = "hierarchy" -> 2
      [] d \in {"policy", "policy_groups", "toplevel_type"} -> 3
      [] d = "expression" -> 4
      [] d = "request" -> 5
      [] d = "entities" -> 6
      [] OTHER -> 7

\* C25: the assembler draws its sub-generators in the order schema,
\* hierarchy, policy (or target type then expression), requests; once a
\* draw has failed no later draw is made and the result is an error, not a
\* scenario; and a scenario is returned only when every draw succeeded.
C25_FirstFailureShortCircuits ==
    /\ \A i, j \in 1..Len(Drawn) :
          i < j => DrawRank(Drawn[i]) <= DrawRank(Drawn[j])
    /\ failedAt > 0 =>
          /\ asmRes = "Err"
          /\ asmIdx = failedAt - 1
          /\ Len(Drawn) = failedAt
    /\ asmRes = "Ok" => (failedAt = 0 /\ asmIdx = Len(Draws(asmKind)))
    /\ asmRes = "Err" => failedAt > 0

C25_Witness ==
    /\ asmKind = "abac_afl"
    /\ asmRes = "Err"
    /\ failedAt = 5
    /\ requests = 1

\* The fuzz engine runs the target to its end: a trial under way takes its
\* next step.
SpecFair == Init /\ [][Next]_vars /\ WF_vars(Next)

SameResult(a, b) ==
    /\ a.representation = b.representation
    /\ a.property = b.property
    /\ a.status = b.status
    /\ a.status_reason = b.status_reason
    /\ a.features = b.features

\* two JSON objects are the same, their timing members aside
SameLine(x, y) == [x EXCEPT !.timing = <<>>] = [y EXCEPT !.timing = <<>>]

FreshLocals(p) ==
    /\ genIdx[p] = 0 /\ genRes[p] = "none"
    /\ schemaRes[p] = "none" /\ valErrs[p] = -1
    /\ obs_out[p] = TycheDefault
    /\ reqIdx[p] = 0 /\ total_auth_errors[p] = 0 /\ errors[p] = 0
    /\ calls[p] = NoCalls /\ wrongArgsAt[p] = 0
    /\ policyset[p] = <<>> /\ authLog[p] = <<>>
    /\ test_name[p] = "none" /\ pending[p] = <<>>
    /\ abort[p] = "none" /\ reported[p] = {} /\ verdicts[p] = NoVerdicts

\* harnesses.rs 25-99: the record of an ABAC trial that returns, from the
\* `valid` flag, the schema conversion, the number of validation errors
\* and the number of authorization errors of that trial
AbacRecord(v, sres, n, total) ==
    IF ~v THEN GenFailureRecord(TycheDefault)
    ELSE LET base == [AbacToTyche EXCEPT !.status = InitialStatus]
             validated ==
                 IF sres # "Ok" THEN base
                 ELSE IF n = 0 THEN ValidationPassed(base)
                 ELSE ValidationFailed(base, n)
         IN  AbacFinished(validated, total)

\* C24: trials are independent.  Every trial starts with every local of
\* the harness fresh, whatever the trial before it left, only the settings
\* and the file system carrying over; and the record of an ABAC trial that
\* returns is the one its own outcomes give, in its line of the log too.
C24_TrialsIndependent ==
    /\ [][\A p \in Procs :
            trial'[p] # trial[p] =>
                /\ FreshLocals(p)'
                /\ UNCHANGED <<cfgVars, fsVars>>]_vars
    /\ [](\A p \in Procs :
            (kind[p] \in AbacKinds /\ pc[p] = "returned") =>
                /\ obs_out[p] = AbacRecord(valid[p], schemaRes[p], valErrs[p],
                                           total_auth_errors[p])
                /\ total_auth_errors[p] <= MaxErrs * NumRequests
                /\ \A e \in OwnRecords(p) : files[e[1]][e[2]].rec = obs_out[p])

C24_Witness ==
    \E p \in Procs : \E q \in Paths :
        /\ kind[p] \in AbacKinds /\ pc[p] = "returned" /\ trial[p] = 2
        /\ Len(files[q]) = 4
        /\ files[q][1].rec.status = "gave_up"
        /\ <<"total_auth_errors", NumRequests>> \in files[q][1].rec.features
        /\ files[q][3].rec.status = "passed"
        /\ <<"total_auth_errors", 0>> \in files[q][3].rec.features

====
